---- MODULE Spec2Model ----
(***************************************************************************)
(* Export pipeline of backend/server.py: the HTTP handlers around the      *)
(* project store, the background supervisor task process_video_export,     *)
(* the external renderer process it spawns, the status and download        *)
(* queries, and the compiler from a timeline to the renderer's command.    *)
(*                                                                         *)
(* Strings that the code cuts or escapes are sequences of tokens: the      *)
(* characters "[", "]", ";", ":", "'", "\\" are tokens of their own, every   *)
(* other token is a piece of text that holds none of them where the code   *)
(* looks for them.                                                         *)
(***************************************************************************)
EXTENDS Integers, Sequences, FiniteSets, TLC

\* ------------------------------------------------------------------ bounds
\* Number of project ids (uuid4 values of create_project) in the model.
MaxProjects == 1
\* Number of export ids (uuid4 values of export_project) in the model.
MaxJobs == 1

\* Number of export ids in the export directories the download is tried on.
MaxDownloadIds == 2
\* Longest effects list and longest text_overlays list that are compiled.
MaxEffects == 2
MaxOverlays == 2

ProjectIds == 1..MaxProjects
JobIds == 1..MaxJobs

\* The container formats of ExportRequest.format (server.py:97).
Formats == {"mp4", "webm", "mov"}

\* HTTP status codes of the handlers.
HTTP_OK == 200
HTTP_BAD_REQUEST == 400
HTTP_NOT_FOUND == 404

\* A path that does not exist in TEMP_DIR.
NoFile == "<no file>"

VARIABLES
    projects_db,    \* project id -> record, the in-memory store (server.py:40)
    next_project,   \* the next fresh project uuid
    uploads,        \* names of the files present in UPLOAD_DIR
    exports,        \* <<export id, extension>> of the files present in EXPORTS_DIR
    temp,           \* export id -> content of TEMP_DIR/<id>_progress.txt, or NoFile
    pc,             \* export id -> position of its process_video_export task
    proc,           \* export id -> state of the renderer process of the task
    job_project,    \* export id -> project_id argument of the task
    job_format,     \* export id -> export_request.format of the task
    job_submitted,  \* export id -> the project record export_project read
    job_cmd,        \* export id -> cmd of the renderer the task spawned, or <<>>
    response,       \* the response to the last export, status or download request
    effects,        \* compiler input: project["effects"]
    text_overlays,  \* compiler input: project["text_overlays"]
    quality,        \* compiler input: export_request.quality
    format,         \* compiler input: export_request.format
    filter_complex, \* the stages after the two loops, before the last is cut
    cmd,            \* the compiled command, <<>> until it is compiled
    compiled        \* "no", "yes", or "raised" when compilation raised

\* What a job renders: the record read at submission and the command spawned.
renderVars == <<job_submitted, job_cmd>>
serverVars == <<projects_db, next_project, uploads, exports, temp, pc, proc,
                job_project, job_format, renderVars, response>>
compileVars == <<effects, text_overlays, quality, format, filter_complex, cmd,
                 compiled>>
vars == <<serverVars, compileVars>>

\* ------------------------------------------------------------- responses
\* op and arg: the handler and the id in its path; code: the HTTP status;
\* detail: the detail of an HTTPException; export_id, ext: the export file a
\* success response refers to; media_type: the content type of a download;
\* status, progress: the fields of a status response; filters: the entries
\* of a filter listing.
Answer(op, arg, code) ==
    [op |-> op, arg |-> arg, code |-> code, detail |-> "", export_id |-> 0,
     ext |-> "", media_type |-> "", status |-> "", progress |-> "",
     filters |-> <<>>]

NoResponse == Answer("none", 0, 0)

\* -------------------------------------------------------------- compiler
\* The part of process_video_export that builds cmd from the project's
\* effects and text overlays and from the export request.

\* quality_settings, each value as the words and blanks of its string.
quality_settings ==
    [low    |-> <<"-crf", " ", "28", " ", "-preset", " ", "ultrafast">>,
     medium |-> <<"-crf", " ", "23", " ", "-preset", " ", "medium">>,
     high   |-> <<"-crf", " ", "18", " ", "-preset", " ", "slow">>]

\* str.split(): the words between the blanks.
RECURSIVE SplitBlanks(_)
SplitBlanks(str) ==
    IF str = <<>> THEN <<>>
    ELSE IF Head(str) = " " THEN SplitBlanks(Tail(str))
    ELSE <<<<Head(str)>>>> \o SplitBlanks(Tail(str))

\* A lookup whose default is the first entry of the table instead of medium.
QualityArgs_DefaultLow(q) ==
    SplitBlanks(IF q \in DOMAIN quality_settings
                THEN quality_settings[q]
                ELSE quality_settings["low"])

\* quality_settings.get(quality, quality_settings["medium"]).split()
QualityArgs(q) ==
    SplitBlanks(IF q \in DOMAIN quality_settings
                THEN quality_settings[q]
                ELSE quality_settings["medium"])

\* effect_mapping: filter id -> filter string.
effect_mapping ==
    [grayscale |-> "colorchannelmixer=.3:.4:.3:0:.3:.4:.3:0:.3:.4:.3",
     sepia     |-> "colorchannelmixer=.393:.769:.189:0:.349:.686:.168:0:.272:.534:.131",
     blur      |-> "boxblur=5:1",
     sharpen   |-> "unsharp=5:5:1.5:5:5:0.0",
     contrast  |-> "eq=contrast=1.5",
     vintage   |-> "curves=vintage,vignette",
     vignette  |-> "vignette=PI/4",
     saturate  |-> "eq=saturation=1.5"]

\* current_input at the start: the video stream of the input.
VideoInput == <<"[", "0:v", "]">>

\* f"[v{n}]"
OutputLabel(n) == <<"[", "v" \o ToString(n), "]">>

\* float(value) as a fraction <<numerator, denominator>>, for the values of
\* the model; <<>> where float() raises ValueError.
ParseFloat(value) ==
    CASE value = "1.0" -> <<1, 1>>
      [] value = "2.0" -> <<2, 1>>
      [] value = "4.0" -> <<4, 1>>
      [] value = "0.5" -> <<1, 2>>
      [] value = "0.0" -> <<0, 1>>
      [] OTHER -> <<>>

\* f"{x}" of the float n/d, for the fractions that have at most two decimals.
FormatFloat(x) ==
    LET n == x[1]
        d == x[2]
        hundredths == ((n % d) * 100) \div d
    IN ToString(n \div d) \o "." \o
       (IF hundredths % 10 = 0 THEN ToString(hundredths \div 10)
        ELSE IF hundredths < 10 THEN "0" \o ToString(hundredths)
        ELSE ToString(hundredths))

\* The state of the two loops: the stages so far, the label the next stage
\* reads, and whether an exception has ended the compilation.
LoopState(stages, input, raised) ==
    [filter_complex |-> stages, current_input |-> input, raised |-> raised]

\* One filter stage is appended and its output becomes the current input.
AppendStage(st, body, n) ==
    LoopState(Append(st.filter_complex,
                     st.current_input \o body \o OutputLabel(n)),
              OutputLabel(n), FALSE)

\* A loop body that remaps time by the multiplier itself, not by its inverse.
EffectStep_NoInverse(st, i, effect) ==
    IF effect.type = "filter" /\ effect.value \in DOMAIN effect_mapping
    THEN AppendStage(st, <<effect_mapping[effect.value]>>, i)
    ELSE IF effect.type = "speed"
    THEN LET speed == ParseFloat(effect.value) IN
         IF speed = <<>> THEN LoopState(st.filter_complex, st.current_input, TRUE)
         ELSE IF speed[1] = speed[2] THEN st
         ELSE IF speed[1] = 0
         THEN LoopState(st.filter_complex, st.current_input, TRUE)
         ELSE AppendStage(st, <<"setpts=", FormatFloat(speed), "*PTS">>, i)
    ELSE st

\* The body of "for i, effect in enumerate(effects)" for index i (from 0).
EffectStep(st, i, effect) ==
    IF effect.type = "filter" /\ effect.value \in DOMAIN effect_mapping
    THEN AppendStage(st, <<effect_mapping[effect.value]>>, i)
    ELSE IF effect.type = "speed"
    THEN LET speed == ParseFloat(effect.value) IN
         IF speed = <<>> THEN LoopState(st.filter_complex, st.current_input, TRUE)
         ELSE IF speed[1] = speed[2] THEN st
         ELSE IF speed[1] = 0
         THEN LoopState(st.filter_complex, st.current_input, TRUE)
         ELSE AppendStage(st, <<"setpts=", FormatFloat(<<speed[2], speed[1]>>),
                                "*PTS">>, i)
    ELSE st

RECURSIVE EffectLoop(_, _, _)
EffectLoop(st, effs, i) ==
    IF st.raised \/ i >= Len(effs) THEN st
    ELSE EffectLoop(EffectStep(st, i, effs[i + 1]), effs, i + 1)

\* str.replace(old, new) for a one-character old.
RECURSIVE Replace(_, _, _)
Replace(str, old, new) ==
    IF str = <<>> THEN <<>>
    ELSE (IF Head(str) = old THEN new ELSE <<Head(str)>>)
         \o Replace(Tail(str), old, new)

\* An escape that forgets the second replace: single quotes stay bare.
EscapeText_ColonOnly(text) == Replace(text, ":", <<"\\", ":">>)

\* overlay.get("text").replace(":", "\\:").replace("'", "\\'")
EscapeText(text) == Replace(Replace(text, ":", <<"\\", ":">>), "'", <<"\\", "'">>)

\* The drawtext filter string of an overlay.
TextFilter(overlay) ==
    <<"drawtext=text='">> \o EscapeText(overlay.text)
    \o <<"':x=", overlay.x, "*W/100:y=", overlay.y, "*W/100:fontsize=",
         overlay.font_size, ":fontcolor=", overlay.color,
         ":enable='between(t,", overlay.start_time, ",", overlay.end_time, ")'">>

\* "for i, overlay in enumerate(text_overlays)": the label is i+len(effects).
RECURSIVE OverlayLoop(_, _, _, _)
OverlayLoop(st, overlays, i, n_effects) ==
    IF st.raised \/ i >= Len(overlays) THEN st
    ELSE OverlayLoop(AppendStage(st, TextFilter(overlays[i + 1]), i + n_effects),
                     overlays, i + 1, n_effects)

\* Overlay stages numbered from 0, without the offset len(effects).
Stages_NoOffset(effs, overlays) ==
    OverlayLoop(EffectLoop(LoopState(<<>>, VideoInput, FALSE), effs, 0),
                overlays, 0, 0)

\* The overlay loop run before the effect loop.
Stages_OverlaysFirst(effs, overlays) ==
    EffectLoop(OverlayLoop(LoopState(<<>>, VideoInput, FALSE), overlays, 0,
                           Len(effs)),
               effs, 0)

\* filter_complex and current_input after the two loops.
Stages(effs, overlays) ==
    OverlayLoop(EffectLoop(LoopState(<<>>, VideoInput, FALSE), effs, 0),
                overlays, 0, Len(effs))

\* str.split("]")[0]: the string up to its first "]".
RECURSIVE BeforeFirst(_, _)
BeforeFirst(str, sep) ==
    IF str = <<>> \/ Head(str) = sep THEN <<>>
    ELSE <<Head(str)>> \o BeforeFirst(Tail(str), sep)

\* filter_complex[-1] = filter_complex[-1].split("]")[0] + "]"
FinalOutput(stages) ==
    [stages EXCEPT ![Len(stages)] = BeforeFirst(stages[Len(stages)], "]") \o <<"]">>]

\* ";".join(list)
RECURSIVE Join(_, _)
Join(list, sep) ==
    IF list = <<>> THEN <<>>
    ELSE IF Len(list) = 1 THEN list[1]
    ELSE list[1] \o <<sep>> \o Join(Tail(list), sep)

\* str(source_path) and str(export_path), the latter fixed by export_project
\* as EXPORTS_DIR/<export_id>.<format>.
SourcePath == <<"uploads/", "<video_file>">>
ExportPath(fmt) == <<"exports/", "<export_id>", ".", fmt>>

\* A command built without the test "if filter_complex:", so that the graph
\* argument is attached even when no stage was emitted.
Command_AlwaysGraph(stages, q, fmt) ==
    <<<<"ffmpeg">>, <<"-y">>, <<"-i">>, SourcePath>>
    \o <<<<"-filter_complex">>,
         IF stages # <<>> THEN Join(FinalOutput(stages), ";") ELSE <<>>>>
    \o QualityArgs(q)
    \o <<<<"-f">>, <<fmt>>, ExportPath(fmt)>>

\* cmd as it is handed to subprocess.Popen: a list of strings.
Command(stages, q, fmt) ==
    <<<<"ffmpeg">>, <<"-y">>, <<"-i">>, SourcePath>>
    \o (IF stages # <<>>
        THEN <<<<"-filter_complex">>, Join(FinalOutput(stages), ";")>>
        ELSE <<>>)
    \o QualityArgs(q)
    \o <<<<"-f">>, <<fmt>>, ExportPath(fmt)>>

\* ------------------------------------------------------ timeline records
\* A VideoEffect as the store holds it.
\* start_time and end_time are None where the client gave none.
Effect(type, value) ==
    [type |-> type, value |-> value, start_time |-> "None", end_time |-> "None"]
Filter(id) == Effect("filter", id)
Speed(value) == Effect("speed", value)
\* The same effect on the interval from start_time to end_time.
Timed(effect, start_time, end_time) ==
    [effect EXCEPT !.start_time = start_time, !.end_time = end_time]

\* A TextOverlay as the store holds it.
Overlay(text) ==
    [text |-> text, x |-> "10.0", y |-> "10.0", font_size |-> "24",
     color |-> "#FFFFFF", start_time |-> "0.0", end_time |-> "5.0"]

\* --------------------------------------------------------- project store
\* The record of a project just created around its upload.
NewProject(video_file) ==
    [video_file |-> video_file, effects |-> <<>>, text_overlays |-> <<>>]

\* create_project: the upload is saved under a fresh name and the record,
\* which always carries that name as video_file, is stored under a fresh id.
\* The project is created with no effects and no text overlays (the defaults
\* of Project); update_project gives it a timeline.
create_project ==
    /\ next_project <= MaxProjects
    /\ uploads' = uploads \cup {next_project}
    /\ projects_db' = [p \in DOMAIN projects_db \cup {next_project} |->
                          IF p = next_project
                          THEN NewProject(next_project)
                          ELSE projects_db[p]]
    /\ next_project' = next_project + 1
    /\ UNCHANGED <<response, exports, temp, pc, proc, job_project, job_format, renderVars, compileVars>>

\* delete_project of a known id (an unknown id is answered 404 and changes
\* nothing): the video file is unlinked when it exists and the record is
\* removed.
delete_project(project_id) ==
    /\ project_id \in DOMAIN projects_db
    /\ uploads' = uploads \ {projects_db[project_id].video_file}
    /\ projects_db' = [p \in DOMAIN projects_db \ {project_id} |-> projects_db[p]]
    /\ UNCHANGED <<response, next_project, exports, temp, pc, proc, job_project,
                   job_format, renderVars, compileVars>>

\* dict.update: the keys of update_data replace those of the record.
Updated(record, update_data) ==
    [k \in DOMAIN record \cup DOMAIN update_data |->
        IF k \in DOMAIN update_data THEN update_data[k] ELSE record[k]]

\* update_project of a known id (an unknown id is answered 404 and changes
\* nothing): the fields the request sets replace those of the record.
update_project(project_id, update_data) ==
    /\ project_id \in DOMAIN projects_db
    /\ projects_db' = [projects_db EXCEPT ![project_id] = Updated(@, update_data)]
    /\ UNCHANGED <<response, next_project, uploads, exports, temp, pc, proc,
                   job_project, job_format, renderVars, compileVars>>

\* The upload directory is a directory of the host: a file of it can be
\* removed from outside the server, which is what the existence probe of
\* export_project guards against.
upload_removed(name) ==
    /\ name \in uploads
    /\ uploads' = uploads \ {name}
    /\ UNCHANGED <<projects_db, next_project, exports, temp, pc, proc,
                   job_project, job_format, response,
                   renderVars, compileVars>>

\* ------------------------------------------------------------ submission
\* "not video_file": the record gives None or an empty name.
NoVideoFile == 0

\* The uuid4 of export_project: an id no earlier job has.
FreshExportIds == {j \in DOMAIN pc : pc[j] = "none"}

Raised(code, detail) == [code |-> code, detail |-> detail]

\* A handler that lets KeyError escape is answered 500 by the framework.
SubmitCheck_KeyError(project_id) ==
    IF project_id \notin DOMAIN projects_db
    THEN Raised(500, "Internal Server Error")
    ELSE IF projects_db[project_id].video_file = NoVideoFile
    THEN Raised(HTTP_BAD_REQUEST, "No video file associated with this project")
    ELSE IF projects_db[project_id].video_file \notin uploads
    THEN Raised(HTTP_NOT_FOUND, "Video file not found")
    ELSE Raised(HTTP_OK, "")

\* The handler without its probe of source_path.
SubmitCheck_NoProbe(project_id) ==
    IF project_id \notin DOMAIN projects_db
    THEN Raised(HTTP_NOT_FOUND, "Project not found")
    ELSE IF projects_db[project_id].video_file = NoVideoFile
    THEN Raised(HTTP_BAD_REQUEST, "No video file associated with this project")
    ELSE Raised(HTTP_OK, "")

\* The checks of export_project in the order the handler makes them: the
\* HTTPException it raises, or code 200 when it raises none.
SubmitCheck(project_id) ==
    IF project_id \notin DOMAIN projects_db
    THEN Raised(HTTP_NOT_FOUND, "Project not found")
    ELSE IF projects_db[project_id].video_file = NoVideoFile
    THEN Raised(HTTP_BAD_REQUEST, "No video file associated with this project")
    ELSE IF projects_db[project_id].video_file \notin uploads
    THEN Raised(HTTP_NOT_FOUND, "Video file not found")
    ELSE Raised(HTTP_OK, "")

\* export_project: a failed check raises and nothing else happens; else the
\* task is added to the background tasks with the job's arguments and the
\* export id is returned. No file is written by the handler. The handler
\* reads the project record, but the task is given the project id only.
export_project(project_id, fmt) ==
    LET check == SubmitCheck(project_id) IN
    IF check.code # HTTP_OK
    THEN /\ response' = [Answer("export_project", project_id, check.code)
                            EXCEPT !.detail = check.detail]
         /\ UNCHANGED <<projects_db, next_project, uploads, exports, temp, pc,
                        proc, job_project, job_format, renderVars, compileVars>>
    ELSE /\ FreshExportIds # {}
         /\ LET export_id == CHOOSE j \in FreshExportIds :
                                 \A k \in FreshExportIds : j <= k IN
            /\ pc' = [pc EXCEPT ![export_id] = "scheduled"]
            /\ job_project' = [job_project EXCEPT ![export_id] = project_id]
            /\ job_format' = [job_format EXCEPT ![export_id] = fmt]
            /\ job_submitted' = [job_submitted EXCEPT
                                    ![export_id] = projects_db[project_id]]
            /\ response' = [Answer("export_project", project_id, HTTP_OK)
                               EXCEPT !.export_id = export_id,
                                      !.status = "processing"]
         /\ UNCHANGED <<projects_db, next_project, uploads, exports, temp,
                        proc, job_cmd, compileVars>>

\* ------------------------------------------------------- supervisor task
ExportFile(j) == <<j, job_format[j]>>

\* export_path.stem: the file name without its extension, which names the
\* progress marker of the task.
Stem(file) == file[1]

\* A marker named after the project of the job, not after its export file.
MarkerOf_Project(j) == job_project[j]

\* The export id under which the task keeps its progress marker.
MarkerOf(j) == Stem(ExportFile(j))

\* The quality of an ExportRequest that names none.
DefaultQuality == "medium"

\* process_video_export from its start to the first "await asyncio.sleep(1)":
\* the handlers of the event loop run only while the task awaits, so this is
\* one step. A project that is gone raises KeyError before progress_path is
\* bound, so the except clause raises in turn and the task ends with nothing
\* written. Otherwise the marker is written, the command is compiled from the
\* effects and text overlays the store holds now, and the renderer is
\* spawned; an exception of the compilation, or of the spawn (raised), is
\* caught and written to the marker. The process just spawned is alive at
\* the first poll.
task_start(j, raised) ==
    /\ pc[j] = "scheduled"
    /\ IF job_project[j] \notin DOMAIN projects_db
       THEN /\ pc' = [pc EXCEPT ![j] = "crashed"]
            /\ UNCHANGED <<temp, proc, job_cmd>>
       ELSE LET project == projects_db[job_project[j]]
                st == Stages(project.effects, project.text_overlays)
            IN IF st.raised \/ raised
               THEN /\ temp' = [temp EXCEPT ![MarkerOf(j)] = "Error: exception"]
                    /\ pc' = [pc EXCEPT ![j] = "done"]
                    /\ UNCHANGED <<proc, job_cmd>>
               ELSE /\ temp' = [temp EXCEPT ![MarkerOf(j)] = "Starting export..."]
                    /\ proc' = [proc EXCEPT ![j] = "running"]
                    /\ pc' = [pc EXCEPT ![j] = "sleeping"]
                    /\ job_cmd' = [job_cmd EXCEPT ![j] =
                                      Command(st.filter_complex, DefaultQuality,
                                              job_format[j])]
    /\ UNCHANGED <<projects_db, next_project, uploads, exports, job_project,
                   job_format, job_submitted, response, compileVars>>

\* The marker after the process has exited: 100% and then unlinked for
\* return code 0, the head of stderr otherwise.
FinalMarker(state) ==
    IF state = "exit0" THEN NoFile ELSE "Error: stderr[:100]..."

\* A loop that never sees the process exit: it rewrites the marker and sleeps
\* again whatever the poll returns.
task_wake_Forever(j) ==
    /\ pc[j] = "sleeping"
    /\ temp' = [temp EXCEPT ![MarkerOf(j)] = "Processing..."]
    /\ UNCHANGED <<projects_db, next_project, uploads, exports, pc, proc,
                   job_project, job_format, response, renderVars, compileVars>>

\* After asyncio.sleep(1) the marker is overwritten and the loop polls the
\* process again: alive, the task sleeps once more; exited, the task writes
\* the final marker and ends.
task_wake(j) ==
    /\ pc[j] = "sleeping"
    /\ IF proc[j] = "running"
       THEN /\ temp' = [temp EXCEPT ![MarkerOf(j)] = "Processing..."]
            /\ UNCHANGED pc
       ELSE /\ temp' = [temp EXCEPT ![MarkerOf(j)] = FinalMarker(proc[j])]
            /\ pc' = [pc EXCEPT ![j] = "done"]
    /\ UNCHANGED <<projects_db, next_project, uploads, exports, proc,
                   job_project, job_format, response,
                   renderVars, compileVars>>

\* ------------------------------------------------------------- renderer
\* The spawned process (ffmpeg -y ... export_path) runs beside the server.
\* It opens its output file while it runs.
renderer_writes(j) ==
    /\ proc[j] = "running"
    /\ ExportFile(j) \notin exports
    /\ exports' = exports \cup {ExportFile(j)}
    /\ UNCHANGED <<projects_db, next_project, uploads, temp, pc, proc,
                   job_project, job_format, response,
                   renderVars, compileVars>>

\* It exits with code 0, the output file written, or with a nonzero code,
\* the output file left as it is at that moment.
renderer_exits(j, ok) ==
    /\ proc[j] = "running"
    /\ proc' = [proc EXCEPT ![j] = IF ok THEN "exit0" ELSE "exit1"]
    /\ exports' = IF ok THEN exports \cup {ExportFile(j)} ELSE exports
    /\ UNCHANGED <<projects_db, next_project, uploads, temp, pc,
                   job_project, job_format, response,
                   renderVars, compileVars>>

\* --------------------------------------------------------- status query
\* get_export_status: only <export_id>.mp4 is probed; without it the marker
\* decides between processing (with the marker's text) and not_found.
get_export_status(export_id) ==
    IF <<export_id, "mp4">> \in exports
    THEN [status |-> "completed", progress |-> "", download_url |-> export_id]
    ELSE IF temp[export_id] # NoFile
    THEN [status |-> "processing", progress |-> temp[export_id], download_url |-> 0]
    ELSE [status |-> "not_found", progress |-> "", download_url |-> 0]

\* A handler that removes the marker once it has reported it.
status_request_Unlinks(export_id) ==
    /\ LET r == get_export_status(export_id) IN
       response' = [Answer("get_export_status", export_id, HTTP_OK)
                       EXCEPT !.status = r.status, !.progress = r.progress,
                              !.export_id = r.download_url]
    /\ temp' = [temp EXCEPT ![export_id] = NoFile]
    /\ UNCHANGED <<projects_db, next_project, uploads, exports, pc, proc,
                   job_project, job_format, renderVars, compileVars>>

\* The handler answers 200 with that body and changes nothing.
status_request(export_id) ==
    /\ LET r == get_export_status(export_id) IN
       response' = [Answer("get_export_status", export_id, HTTP_OK)
                       EXCEPT !.status = r.status, !.progress = r.progress,
                              !.export_id = r.download_url]
    /\ UNCHANGED <<projects_db, next_project, uploads, exports, temp, pc, proc,
                   job_project, job_format, renderVars, compileVars>>

\* -------------------------------------------------------------- download
\* The loop with webm tried before mp4.
DownloadOrder_WebmFirst == <<"webm", "mp4", "mov">>

\* The extensions download_export tries, in the order of its loop.
DownloadOrder == <<"mp4", "webm", "mov">>

\* The first extension of the loop under which the export exists, "" if none.
RECURSIVE FirstExisting(_, _, _)
FirstExisting(files, export_id, i) ==
    IF i > Len(DownloadOrder) THEN ""
    ELSE IF <<export_id, DownloadOrder[i]>> \in files THEN DownloadOrder[i]
    ELSE FirstExisting(files, export_id, i + 1)

\* The response of download_export: the file <export_id>.<ext> as video/<ext>,
\* or 404.
DownloadResponse(files, export_id) ==
    LET ext == FirstExisting(files, export_id, 1) IN
    IF ext = ""
    THEN [Answer("download_export", export_id, HTTP_NOT_FOUND)
             EXCEPT !.detail = "Export not found"]
    ELSE [Answer("download_export", export_id, HTTP_OK)
             EXCEPT !.export_id = export_id, !.ext = ext,
                    !.media_type = "video/" \o ext]

download_export(export_id) ==
    /\ response' = DownloadResponse(exports, export_id)
    /\ UNCHANGED <<projects_db, next_project, uploads, exports, temp, pc, proc,
                   job_project, job_format, renderVars, compileVars>>

\* -------------------------------------------------------- filter listing
\* A listing that offers a filter the compiler has no template for.
get_available_filters_Extra ==
    <<[id |-> "grayscale", name |-> "Grayscale"],
      [id |-> "sepia", name |-> "Sepia"],
      [id |-> "blur", name |-> "Blur"],
      [id |-> "sharpen", name |-> "Sharpen"],
      [id |-> "contrast", name |-> "High Contrast"],
      [id |-> "vintage", name |-> "Vintage"],
      [id |-> "vignette", name |-> "Vignette"],
      [id |-> "saturate", name |-> "Saturate"],
      [id |-> "invert", name |-> "Invert"]>>

\* get_available_filters: the list the handler returns, each entry by its id
\* and name.
get_available_filters ==
    <<[id |-> "grayscale", name |-> "Grayscale"],
      [id |-> "sepia", name |-> "Sepia"],
      [id |-> "blur", name |-> "Blur"],
      [id |-> "sharpen", name |-> "Sharpen"],
      [id |-> "contrast", name |-> "High Contrast"],
      [id |-> "vintage", name |-> "Vintage"],
      [id |-> "vignette", name |-> "Vignette"],
      [id |-> "saturate", name |-> "Saturate"]>>

\* The handler answers 200 with that list and changes nothing.
filters_request ==
    /\ response' = [Answer("get_available_filters", 0, HTTP_OK)
                       EXCEPT !.filters = get_available_filters]
    /\ UNCHANGED <<projects_db, next_project, uploads, exports, temp, pc, proc,
                   job_project, job_format, renderVars, compileVars>>

\* ------------------------------------------------------------ the server
CompileIdle ==
    /\ effects = <<>>
    /\ text_overlays = <<>>
    /\ quality = "medium"
    /\ format = "mp4"
    /\ filter_complex = <<>>
    /\ cmd = <<>>
    /\ compiled = "no"

Init ==
    /\ projects_db = <<>>
    /\ next_project = 1
    /\ uploads = {}
    /\ exports = {}
    /\ temp = [j \in JobIds |-> NoFile]
    /\ pc = [j \in JobIds |-> "none"]
    /\ proc = [j \in JobIds |-> "none"]
    /\ job_project = [j \in JobIds |-> 0]
    /\ job_format = [j \in JobIds |-> ""]
    /\ job_submitted = [j \in JobIds |-> <<>>]
    /\ job_cmd = [j \in JobIds |-> <<>>]
    /\ response = NoResponse
    /\ CompileIdle

\* The export ids of the run.
Jobs == DOMAIN pc

CreateProject == create_project
DeleteProject == \E p \in ProjectIds : delete_project(p)
UploadRemoved == \E f \in ProjectIds : upload_removed(f)
ExportProject == \E p \in ProjectIds, fmt \in Formats : export_project(p, fmt)
TaskStart == \E j \in Jobs, raised \in BOOLEAN : task_start(j, raised)
TaskWake == \E j \in Jobs : task_wake(j)
RendererWrites == \E j \in Jobs : renderer_writes(j)
RendererExits == \E j \in Jobs, ok \in BOOLEAN : renderer_exits(j, ok)
GetExportStatus == \E j \in Jobs : status_request(j)
DownloadExport == \E j \in Jobs : download_export(j)

Next ==
    \/ CreateProject
    \/ DeleteProject
    \/ UploadRemoved
    \/ ExportProject
    \/ TaskStart
    \/ TaskWake
    \/ RendererWrites
    \/ RendererExits
    \/ GetExportStatus
    \/ DownloadExport

Spec == Init /\ [][Next]_vars

\* ------------------------------------------------ the tasks to their end
\* The steps that move a job, without the queries (which change no job):
\* the event loop runs a task that is ready, so a task that can start or
\* wake does so, and the renderer is taken to exit at some time.
NextTasks ==
    \/ CreateProject
    \/ DeleteProject
    \/ ExportProject
    \/ TaskStart
    \/ TaskWake
    \/ RendererWrites
    \/ RendererExits

Fairness ==
    \A j \in JobIds :
        /\ WF_vars(\E raised \in BOOLEAN : task_start(j, raised))
        /\ WF_vars(task_wake(j))
        /\ WF_vars(\E ok \in BOOLEAN : renderer_exits(j, ok))

FairSpec == Init /\ [][NextTasks]_vars /\ Fairness

\* -------------------------------------------- the timeline under edits
\* The store while clients edit timelines, submit exports and the tasks
\* start: the steps that decide which timeline a job renders.
UpdateInputs ==
    {[effects |-> <<Filter("grayscale")>>],
     [effects |-> <<Speed("fast")>>],
     [text_overlays |-> <<Overlay(<<"H", "i">>)>>],
     [effects |-> <<>>, text_overlays |-> <<>>]}

UpdateProject == \E p \in ProjectIds, u \in UpdateInputs : update_project(p, u)

NextTimeline ==
    \/ CreateProject
    \/ UpdateProject
    \/ DeleteProject
    \/ ExportProject
    \/ TaskStart

SpecTimeline == Init /\ [][NextTimeline]_vars

\* ------------------------------------------------- jobs side by side
\* Several exports of one project in flight at once: the store holds the
\* project and its upload, and there are MaxConcurrent export ids.
MaxConcurrent == 2
ConcurrentIds == 1..MaxConcurrent

InitJobs ==
    /\ projects_db = [p \in {1} |-> NewProject(p)]
    /\ next_project = 2
    /\ uploads = {1}
    /\ exports = {}
    /\ temp = [j \in ConcurrentIds |-> NoFile]
    /\ pc = [j \in ConcurrentIds |-> "none"]
    /\ proc = [j \in ConcurrentIds |-> "none"]
    /\ job_project = [j \in ConcurrentIds |-> 0]
    /\ job_format = [j \in ConcurrentIds |-> ""]
    /\ job_submitted = [j \in ConcurrentIds |-> <<>>]
    /\ job_cmd = [j \in ConcurrentIds |-> <<>>]
    /\ response = NoResponse
    /\ CompileIdle

NextJobs ==
    \/ ExportProject
    \/ TaskStart
    \/ TaskWake
    \/ RendererWrites
    \/ RendererExits

SpecJobs == InitJobs /\ [][NextJobs]_vars

\* ------------------------------------------- download_export on its own
\* download_export is a function of the export directory and the id in the
\* request: here the directory holds any files <id>.<ext>, more than one
\* extension for an id included, and a download is requested.
DownloadIds == 1..MaxDownloadIds

InitDownload ==
    /\ projects_db = <<>>
    /\ next_project = 1
    /\ uploads = {}
    /\ exports \in SUBSET (DownloadIds \X Formats)
    /\ temp = [j \in JobIds |-> NoFile]
    /\ pc = [j \in JobIds |-> "none"]
    /\ proc = [j \in JobIds |-> "none"]
    /\ job_project = [j \in JobIds |-> 0]
    /\ job_format = [j \in JobIds |-> ""]
    /\ job_submitted = [j \in JobIds |-> <<>>]
    /\ job_cmd = [j \in JobIds |-> <<>>]
    /\ response = NoResponse
    /\ CompileIdle

DownloadRequest == \E export_id \in DownloadIds : download_export(export_id)

NextDownload == DownloadRequest

SpecDownload == InitDownload /\ [][NextDownload]_vars

\* ------------------------------------------------- compiler on its own
\* The compilation of the inputs: cmd, or the exception.
compile_command ==
    /\ compiled = "no"
    /\ LET st == Stages(effects, text_overlays) IN
       /\ filter_complex' = st.filter_complex
       /\ IF st.raised
          THEN /\ compiled' = "raised"
               /\ cmd' = <<>>
          ELSE /\ compiled' = "yes"
               /\ cmd' = Command(st.filter_complex, quality, format)
    /\ UNCHANGED <<serverVars, effects, text_overlays, quality, format>>

\* The effects and overlays the compiler is run on.
EffectInputs ==
    {Filter("grayscale"), Timed(Filter("blur"), "5.0", "9.0"), Filter("neon"),
     Speed("1.0"), Speed("2.0"), Timed(Speed("0.5"), "0.0", "4.0"),
     Speed("0.0"), Speed("fast"), Effect("volume", "0.5")}

OverlayInputs == {Overlay(<<"H", "i">>), Overlay(<<"a", ":", "b", "'", "c">>)}

QualityInputs == {"low", "medium", "high", "ultra"}

SeqsUpTo(S, n) == UNION {[1..k -> S] : k \in 0..n}

InitCompile ==
    /\ projects_db = <<>>
    /\ next_project = 1
    /\ uploads = {}
    /\ exports = {}
    /\ temp = [j \in JobIds |-> NoFile]
    /\ pc = [j \in JobIds |-> "none"]
    /\ proc = [j \in JobIds |-> "none"]
    /\ job_project = [j \in JobIds |-> 0]
    /\ job_format = [j \in JobIds |-> ""]
    /\ job_submitted = [j \in JobIds |-> <<>>]
    /\ job_cmd = [j \in JobIds |-> <<>>]
    /\ response = NoResponse
    /\ effects \in SeqsUpTo(EffectInputs, MaxEffects)
    /\ text_overlays \in SeqsUpTo(OverlayInputs, MaxOverlays)
    /\ quality \in QualityInputs
    /\ format \in Formats
    /\ filter_complex = <<>>
    /\ cmd = <<>>
    /\ compiled = "no"

Compile == compile_command

NextCompile == Compile

SpecCompile == InitCompile /\ [][NextCompile]_vars

\* -------------------------------------------- the listing and the compiler
\* A client reads the filter listing and the compiler is run on effects of
\* type filter: their values are the ids of the listing, the ids of
\* effect_mapping, and ids that are in neither.
MaxFilterEffects == 2

FilterIdInputs ==
    {get_available_filters[i].id : i \in 1..Len(get_available_filters)}
    \cup DOMAIN effect_mapping
    \cup {"neon", "Sepia"}

InitFilters ==
    /\ projects_db = <<>>
    /\ next_project = 1
    /\ uploads = {}
    /\ exports = {}
    /\ temp = [j \in JobIds |-> NoFile]
    /\ pc = [j \in JobIds |-> "none"]
    /\ proc = [j \in JobIds |-> "none"]
    /\ job_project = [j \in JobIds |-> 0]
    /\ job_format = [j \in JobIds |-> ""]
    /\ job_submitted = [j \in JobIds |-> <<>>]
    /\ job_cmd = [j \in JobIds |-> <<>>]
    /\ response = NoResponse
    /\ effects \in SeqsUpTo({Filter(id) : id \in FilterIdInputs}, MaxFilterEffects)
    /\ text_overlays = <<>>
    /\ quality = "medium"
    /\ format = "mp4"
    /\ filter_complex = <<>>
    /\ cmd = <<>>
    /\ compiled = "no"

GetAvailableFilters == filters_request

NextFilters ==
    \/ GetAvailableFilters
    \/ Compile

SpecFilters == InitFilters /\ [][NextFilters]_vars

\* ================================================================ claims
\* The export ids that export_project has returned.
Returned == {j \in JobIds : pc[j] # "none"}

ErrorTexts == {"Error: exception", "Error: stderr[:100]..."}

\* What a client reads from a status response: the job is done, it failed
\* (the progress text is an error text), it is in progress, or it is unknown.
Reading(r) ==
    IF r.status = "completed" THEN "completed"
    ELSE IF r.status = "processing"
    THEN (IF r.progress \in ErrorTexts THEN "failed" ELSE "processing")
    ELSE "not_found"

\* From one reading of a job to the next one: the same reading, or a step
\* forward along pending/running -> completed or pending/running -> failed.
\* A first not_found is not counted as a reading of the job's state.
Forward(a, b) ==
    \/ a = b
    \/ a = "not_found"
    \/ a = "processing" /\ b \in {"completed", "failed"}

\* C1: two status responses for the same returned job, the second following
\* the first, never show a regression: no later state followed by an earlier
\* one, no completed next to failed, no not_found after processing.
C1_MonotoneReadings ==
    [][(/\ response.op = "get_export_status"
        /\ response'.op = "get_export_status"
        /\ response'.arg = response.arg
        /\ response.arg \in Returned)
       => Forward(Reading(response), Reading(response'))]_vars

\* C2: once the renderer of a job has exited with code 0 and its artifact is
\* at the path fixed at submit, the status query answers completed with the
\* download reference, whatever the format and whatever the marker.
C2_CompletedAfterExit0 ==
    \A j \in JobIds :
        (proc[j] = "exit0" /\ ExportFile(j) \in exports)
        => /\ get_export_status(j).status = "completed"
           /\ get_export_status(j).download_url = j

\* What export_project may change when it starts a job.
jobVars == <<pc, proc, job_project, job_format, job_submitted, job_cmd>>
storeVars == <<projects_db, next_project, uploads>>
fileVars == <<exports, temp>>

\* A step in which export_project answers a request for project p: no other
\* action writes a response of that handler.
ExportAnswered(p) ==
    /\ response' # response
    /\ response'.op = "export_project"
    /\ response'.arg = p

\* C3: export_project with a project id that is not in the store answers 404
\* and schedules no task, writes no marker and no export file, and leaves the
\* store as it is.
C3_UnknownProjectRejected ==
    [][\A p \in ProjectIds :
          (p \notin DOMAIN projects_db /\ ExportAnswered(p))
          => /\ response'.code = HTTP_NOT_FOUND
             /\ UNCHANGED <<jobVars, fileVars, storeVars>>]_vars

\* An export request for an id was answered "Project not found" and there is
\* no job.
C3_Witness ==
    /\ response.op = "export_project"
    /\ response.code = HTTP_NOT_FOUND
    /\ response.detail = "Project not found"
    /\ response.arg \notin DOMAIN projects_db
    /\ Returned = {}

\* The source media of a stored project is missing: the record names no
\* file, or the file it names is not in the upload directory.
MediaMissing(p) ==
    \/ projects_db[p].video_file = NoVideoFile
    \/ projects_db[p].video_file \notin uploads

C5_ReturnedJobIsKnown ==
    \A j \in Returned : get_export_status(j).status # "not_found"

\* C6: once the renderer of a job has exited with a nonzero code and the task
\* has seen it, the head of the error stream is kept as the job's error
\* detail, and the status query answers neither completed nor processing.
C6_FailedAfterNonzeroExit ==
    \A j \in JobIds :
        (proc[j] = "exit1" /\ pc[j] = "done")
        => /\ temp[j] = "Error: stderr[:100]..."
           /\ get_export_status(j).status \notin {"completed", "processing"}
\* The place of an extension in the order mp4, webm, mov.
Priority(ext) == CASE ext = "mp4" -> 1 [] ext = "webm" -> 2 [] ext = "mov" -> 3

ExtensionsOf(export_id) == {e \in Formats : <<export_id, e>> \in exports}

\* C7: download_export answers 404 exactly when the id has no file under mp4,
\* webm and mov; else it returns the file of that same id whose extension
\* comes first in the order mp4, webm, mov, with content type video/<ext>.
C7_DownloadPriority ==
    response.op = "download_export"
    => IF ExtensionsOf(response.arg) = {}
       THEN response.code = HTTP_NOT_FOUND
       ELSE /\ response.code = HTTP_OK
            /\ response.export_id = response.arg
            /\ response.ext \in ExtensionsOf(response.arg)
            /\ \A e \in ExtensionsOf(response.arg) :
                   Priority(response.ext) <= Priority(e)
            /\ response.media_type = "video/" \o response.ext

\* The webm file of an id is returned while its mov file and the mp4 file of
\* another id exist.
C7_Witness ==
    /\ response.op = "download_export"
    /\ response.code = HTTP_OK
    /\ response.ext = "webm"
    /\ ExtensionsOf(response.arg) = {"webm", "mov"}
    /\ \E other \in DownloadIds : other # response.arg /\ "mp4" \in ExtensionsOf(other)
\* The stages the two loops emit for the inputs, before the final rewriting.
Emitted == Stages(effects, text_overlays).filter_complex

\* The argument that follows -filter_complex in a command, <<>> without one.
GraphArg(c) ==
    IF \E i \in 1..(Len(c) - 1) : c[i] = <<"-filter_complex">>
    THEN c[(CHOOSE i \in 1..(Len(c) - 1) : c[i] = <<"-filter_complex">>) + 1]
    ELSE <<>>

\* A stage without the output label that ends it.
WithoutOutputLabel(stage) == SubSeq(stage, 1, Len(stage) - Len(OutputLabel(0)))

\* The stage list with only the output label of its last stage removed.
LastLabelDropped(stages) ==
    [stages EXCEPT ![Len(stages)] = WithoutOutputLabel(stages[Len(stages)])]

\* C8: when at least one stage is emitted, the graph in the command is the
\* emitted stage list with only the output label of the last stage removed.
C8_OnlyLastLabelDropped ==
    (compiled = "yes" /\ Emitted # <<>>)
    => GraphArg(cmd) = Join(LastLabelDropped(Emitted), ";")

IsFilter(effect) == effect.type = "filter"
Known(effect) == effect.value \in DOMAIN effect_mapping

\* C9: for one filter effect with an unknown id followed by one with a known
\* id, and no overlays, compilation does not raise and the graph is one
\* stage: the video input, then the template of the known filter (with or
\* without an output label after it).
C9_UnknownThenKnown ==
    (/\ compiled # "no"
     /\ Len(effects) = 2
     /\ IsFilter(effects[1]) /\ ~Known(effects[1])
     /\ IsFilter(effects[2]) /\ Known(effects[2])
     /\ text_overlays = <<>>)
    => /\ compiled = "yes"
       /\ LET stage == VideoInput \o <<effect_mapping[effects[2].value]>> IN
          GraphArg(cmd) \in {stage, stage \o OutputLabel(1)}

\* The stages of a graph: the pieces between its ";".
RECURSIVE SplitStages(_)
SplitStages(graph) ==
    IF graph = <<>> THEN <<>>
    ELSE LET first == BeforeFirst(graph, ";") IN
         IF Len(first) = Len(graph) THEN <<first>>
         ELSE <<first>> \o SplitStages(SubSeq(graph, Len(first) + 2, Len(graph)))

HasPrefix(str, prefix) ==
    Len(str) >= Len(prefix) /\ SubSeq(str, 1, Len(prefix)) = prefix

HasSuffix(str, suffix) ==
    Len(str) >= Len(suffix)
    /\ SubSeq(str, Len(str) - Len(suffix) + 1, Len(str)) = suffix

\* The first stage reads the video input and every later stage reads the
\* label that ends the stage before it.
LinearChain(stages) ==
    /\ stages # <<>> => HasPrefix(stages[1], VideoInput)
    /\ \A k \in 2..Len(stages) :
           \E n \in 0..(MaxEffects + MaxOverlays) :
               /\ HasSuffix(stages[k - 1], OutputLabel(n))
               /\ HasPrefix(stages[k], OutputLabel(n))

\* c holds the arguments args one after the other.
HasArgs(c, args) ==
    \E i \in 0..(Len(c) - Len(args)) : SubSeq(c, i + 1, i + Len(args)) = args

\* C10: every compiled graph is a linear chain from the video input, and for
\* effects = [filter grayscale], one text overlay, quality medium and format
\* mp4 the graph is the grayscale stage with output v0 followed by a drawtext
\* stage that reads v0, with -crf 23 -preset medium and an mp4 destination.
C10_ChainAndScenario ==
    compiled = "yes"
    => /\ LinearChain(SplitStages(GraphArg(cmd)))
       /\ (/\ effects = <<Filter("grayscale")>>
           /\ text_overlays = <<Overlay(<<"H", "i">>)>>
           /\ quality = "medium"
           /\ format = "mp4")
          => /\ LET stages == SplitStages(GraphArg(cmd)) IN
                /\ Len(stages) = 2
                /\ stages[1] = VideoInput \o <<effect_mapping["grayscale"]>>
                                   \o OutputLabel(0)
                /\ HasPrefix(stages[2], OutputLabel(0) \o <<"drawtext=text='">>)
             /\ HasArgs(cmd, <<<<"-crf">>, <<"23">>, <<"-preset">>, <<"medium">>>>)
             /\ HasArgs(cmd, <<<<"-f">>, <<"mp4">>>>)
             /\ HasSuffix(cmd[Len(cmd)], <<".", "mp4">>)

\* The encoder parameters the quality table promises for a quality value.
ExpectedQuality(q) ==
    CASE q = "low"  -> <<<<"-crf">>, <<"28">>, <<"-preset">>, <<"ultrafast">>>>
      [] q = "high" -> <<<<"-crf">>, <<"18">>, <<"-preset">>, <<"slow">>>>
      [] OTHER      -> <<<<"-crf">>, <<"23">>, <<"-preset">>, <<"medium">>>>

\* C11: with no effects and no text overlays, for every quality and format,
\* the command has no -filter_complex argument and is exactly: ffmpeg -y -i
\* <source path>, the quality parameters, -f <format>, <destination path>.
C11_NoGraphWithoutStages ==
    (compiled = "yes" /\ effects = <<>> /\ text_overlays = <<>>)
    => /\ \A i \in 1..Len(cmd) : cmd[i] # <<"-filter_complex">>
       /\ cmd = <<<<"ffmpeg">>, <<"-y">>, <<"-i">>, SourcePath>>
                \o ExpectedQuality(quality)
                \o <<<<"-f">>, <<format>>, ExportPath(format)>>

C11_Witness ==
    /\ compiled = "yes"
    /\ effects = <<>> /\ text_overlays = <<>>
    /\ quality = "high" /\ format = "webm"
    /\ Len(cmd) = 11

\* The four arguments of a command that come before its "-f".
QualityOf(c) == SubSeq(c, Len(c) - 6, Len(c) - 3)

\* C14: the quality parameters of the command are -crf 28 -preset ultrafast
\* for low, -crf 23 -preset medium for medium, -crf 18 -preset slow for high,
\* and the medium parameters for any other quality value, which raises no
\* error.
C14_QualityTable ==
    /\ compiled = "yes" => QualityOf(cmd) = ExpectedQuality(quality)
    /\ (compiled # "no" /\ effects = <<>>) => compiled = "yes"

C14_Witness ==
    /\ compiled = "yes"
    /\ quality = "ultra"
    /\ QualityOf(cmd) = <<<<"-crf">>, <<"23">>, <<"-preset">>, <<"medium">>>>

\* The positions in a stage list of the stages that write the label v<n>.
StagesWriting(stages, n) ==
    {k \in 1..Len(stages) : HasSuffix(stages[k], OutputLabel(n))}

\* The filter body of a stage: what stands between its input label and its
\* output label.
BodyOf(stage) == SubSeq(stage, Len(VideoInput) + 1, Len(stage) - Len(OutputLabel(0)))

\* The time-remap factor 1/m, as printed, of the positive multipliers m of
\* the model other than 1.0.
InverseOf(m) ==
    CASE m = "2.0" -> "0.5"
      [] m = "0.5" -> "2.0"

\* C12: in a compilation that does not raise, the speed effect at index i
\* emits no stage when its multiplier is 1.0, and the stages around it stay
\* chained (the current handle is unchanged); when its multiplier is another
\* positive number m it emits exactly one stage, with the body
\* setpts=<1/m>*PTS, so that 2.0 gives setpts=0.5*PTS.
C12_SpeedStage ==
    compiled = "yes"
    => /\ LinearChain(filter_complex)
       /\ \A i \in 0..(Len(effects) - 1) :
              LET effect == effects[i + 1]
                  at == StagesWriting(filter_complex, i)
              IN effect.type = "speed"
                 => IF effect.value = "1.0" THEN at = {}
                    ELSE /\ Cardinality(at) = 1
                         /\ \A k \in at :
                                BodyOf(filter_complex[k])
                                = <<"setpts=", InverseOf(effect.value), "*PTS">>

C12_Witness ==
    /\ compiled = "yes"
    /\ effects = <<Speed("1.0"), Speed("2.0")>>
    /\ filter_complex = <<VideoInput \o <<"setpts=", "0.5", "*PTS">> \o OutputLabel(1)>>

\* The text of a drawtext stage: what stands between "drawtext=text='" and
\* the "':x=" that closes it.
TextOf(stage) ==
    LET body == BodyOf(stage)
        close == CHOOSE k \in 1..Len(body) : body[k] = "':x="
    IN SubSeq(body, 2, close - 1)

IsDrawtext(stage) ==
    /\ Len(stage) > Len(VideoInput) + Len(OutputLabel(0))
    /\ BodyOf(stage)[1] = "drawtext=text='"
    /\ \E k \in 1..Len(BodyOf(stage)) : BodyOf(stage)[k] = "':x="

Special(c) == c \in {":", "'"}
NotBackslash(c) == c # "\\"

\* out is text with one backslash put before every colon and single quote
\* and nothing else changed (for a text that holds no backslash).
Escaped(out, text) ==
    /\ \A k \in 1..Len(out) : Special(out[k]) => (k > 1 /\ out[k - 1] = "\\")
    /\ SelectSeq(out, NotBackslash) = text
    /\ Len(out) = Len(text) + Len(SelectSeq(text, Special))

\* C13: the drawtext stage emitted for an overlay holds the overlay's text
\* with every colon and every single quote preceded by a backslash and every
\* other character unchanged and in order; the text a:b'c becomes a\:b\'c.
C13_TextEscaped ==
    compiled = "yes"
    => \A j \in 0..(Len(text_overlays) - 1) :
           LET at == StagesWriting(filter_complex, j + Len(effects))
               text == text_overlays[j + 1].text
           IN /\ Cardinality(at) = 1
              /\ \A k \in at :
                     /\ IsDrawtext(filter_complex[k])
                     /\ Escaped(TextOf(filter_complex[k]), text)
                     /\ text = <<"a", ":", "b", "'", "c">>
                        => TextOf(filter_complex[k])
                           = <<"a", "\\", ":", "b", "\\", "'", "c">>

C13_Witness ==
    /\ compiled = "yes"
    /\ text_overlays = <<Overlay(<<"a", ":", "b", "'", "c">>)>>
    /\ Len(filter_complex) = Len(effects) + 1
    /\ TextOf(filter_complex[Len(filter_complex)])
       = <<"a", "\\", ":", "b", "\\", "'", "c">>

\* The effects that contribute a stage: a filter with an id of the catalog,
\* or a speed effect with a positive multiplier other than 1.0.
Emits(effect) ==
    \/ effect.type = "filter" /\ effect.value \in DOMAIN effect_mapping
    \/ effect.type = "speed" /\ effect.value \in {"2.0", "0.5"}

\* The filter body the stage of an emitting effect holds.
ExpectedBody(effect) ==
    IF effect.type = "filter" THEN <<effect_mapping[effect.value]>>
    ELSE <<"setpts=", InverseOf(effect.value), "*PTS">>

\* The positions (from 1) of the emitting effects, and the k-th of them in
\* declaration order.
Emitting == {i \in 1..Len(effects) : Emits(effects[i])}
KthEmitting(k) == CHOOSE i \in Emitting : Cardinality({x \in Emitting : x < i}) = k - 1

\* The number n of the output label v<n> that ends a stage.
LabelOf(stage) ==
    CHOOSE n \in 0..(MaxEffects + MaxOverlays) : HasSuffix(stage, OutputLabel(n))

\* C17: the output labels of the emitted stages strictly increase in
\* emission order (so they are pairwise distinct); the stage of the effect
\* at index i writes v<i>, the stage of the overlay at index j writes
\* v<j + number of effects>, and no overlay label is an effect label.
C17_LabelsIncrease ==
    compiled = "yes"
    => /\ \A k \in 1..Len(filter_complex) :
              \E n \in 0..(Len(effects) + Len(text_overlays) - 1) :
                  HasSuffix(filter_complex[k], OutputLabel(n))
       /\ \A k, l \in 1..Len(filter_complex) :
              k < l => LabelOf(filter_complex[k]) < LabelOf(filter_complex[l])
       /\ \A k \in 1..Len(filter_complex) :
              IF IsDrawtext(filter_complex[k])
              THEN /\ LabelOf(filter_complex[k]) >= Len(effects)
                   /\ TextOf(filter_complex[k])
                      = EscapeText(text_overlays[LabelOf(filter_complex[k])
                                                 - Len(effects) + 1].text)
              ELSE /\ LabelOf(filter_complex[k]) < Len(effects)
                   /\ LabelOf(filter_complex[k]) + 1 \in Emitting
                   /\ BodyOf(filter_complex[k])
                      = ExpectedBody(effects[LabelOf(filter_complex[k]) + 1])

C17_Witness ==
    /\ compiled = "yes"
    /\ Len(effects) = 2 /\ Len(text_overlays) = 2
    /\ Len(filter_complex) = 3
    /\ LabelOf(filter_complex[1]) = 1
    /\ LabelOf(filter_complex[2]) = 2
    /\ LabelOf(filter_complex[3]) = 3

\* C18: the emitted stages are the stages of the emitting effects in
\* declaration order (a skipped effect contributes none), whatever the
\* effects' start_time and end_time, followed by one drawtext stage per
\* overlay in declaration order; the graph of the command lists them in that
\* order, each stage before the last as it was emitted.
C18_DeclarationOrder ==
    compiled = "yes"
    => /\ Len(filter_complex) = Cardinality(Emitting) + Len(text_overlays)
       /\ \A k \in 1..Cardinality(Emitting) :
              /\ ~IsDrawtext(filter_complex[k])
              /\ BodyOf(filter_complex[k]) = ExpectedBody(effects[KthEmitting(k)])
       /\ \A j \in 1..Len(text_overlays) :
              LET stage == filter_complex[Cardinality(Emitting) + j] IN
              /\ IsDrawtext(stage)
              /\ Escaped(TextOf(stage), text_overlays[j].text)
       /\ LET graph == SplitStages(GraphArg(cmd)) IN
          /\ Len(graph) = Len(filter_complex)
          /\ \A k \in 1..Len(graph) : HasPrefix(filter_complex[k], graph[k])
          /\ \A k \in 1..(Len(graph) - 1) : graph[k] = filter_complex[k]

\* The effect declared first starts later than the one declared second, and
\* the two overlays differ.
C18_Witness ==
    /\ compiled = "yes"
    /\ effects = <<Timed(Filter("blur"), "5.0", "9.0"),
                   Timed(Speed("0.5"), "0.0", "4.0")>>
    /\ text_overlays = <<Overlay(<<"a", ":", "b", "'", "c">>), Overlay(<<"H", "i">>)>>
    /\ Len(filter_complex) = 4
    /\ BodyOf(filter_complex[1]) = <<effect_mapping["blur"]>>
    /\ BodyOf(filter_complex[2]) = <<"setpts=", "2.0", "*PTS">>
    /\ TextOf(filter_complex[4]) = <<"H", "i">>

\* The task of job j has ended without its renderer returning code 0.
Failed(j) == pc[j] \in {"done", "crashed"} /\ proc[j] # "exit0"

\* C15: a job whose task ended in a failure ended inside the task's own
\* error handling, with no exception left uncaught, and its marker holds an
\* error text for the status query to report.
C15_FailureRecorded ==
    \A j \in Jobs : Failed(j) => (pc[j] = "done" /\ temp[j] \in ErrorTexts)

\* The export files of job k.
FilesOf(files, k) == {f \in files : Stem(f) = k}

\* A step of the task of job j or of the renderer it spawned.
JobStep(j) ==
    \/ \E raised \in BOOLEAN : task_start(j, raised)
    \/ task_wake(j)
    \/ renderer_writes(j)
    \/ \E ok \in BOOLEAN : renderer_exits(j, ok)

\* C16: two jobs that were submitted have different export files and
\* different markers, and a step of one job's task or renderer leaves the
\* marker and the export files of every other job as they are.
C16_JobsKeepApart ==
    [][\A j \in Jobs : \A k \in Jobs \ {j} :
          /\ (pc[j] # "none" /\ pc[k] # "none")
             => (ExportFile(j) # ExportFile(k) /\ MarkerOf(j) # MarkerOf(k))
          /\ JobStep(j)
             => /\ temp'[k] = temp[k]
                /\ FilesOf(exports', k) = FilesOf(exports, k)]_vars

\* Two jobs in flight at once, with the same format, each with its marker.
C16_Witness ==
    /\ MaxConcurrent >= 2
    /\ pc[1] = "sleeping" /\ pc[2] = "sleeping"
    /\ job_format[1] = job_format[2]
    /\ temp[1] = "Processing..."
    /\ temp[2] = "Starting export..."
    /\ ExportFile(1) \in exports
    /\ ExportFile(2) \notin exports

\* The graph of the command compiled from a project record.
GraphOf(project, fmt) ==
    GraphArg(Command(Stages(project.effects, project.text_overlays).filter_complex,
                     DefaultQuality, fmt))

\* C19: the stages in the command of a job's renderer are those of the
\* timeline the store held when export_project answered, whatever
\* update_project did afterwards.
C19_RendersSubmittedTimeline ==
    \A j \in Jobs :
        job_cmd[j] # <<>>
        => GraphArg(job_cmd[j]) = GraphOf(job_submitted[j], job_format[j])

\* C20: a step in which get_export_status or download_export answers leaves
\* every marker, every export file, the project store and the jobs as they
\* are; a step in which export_project answers writes no marker and no
\* export file, and a job whose task has not started has neither.
C20_QueriesWriteNothing ==
    [][/\ (/\ response' # response
           /\ response'.op \in {"get_export_status", "download_export"})
          => UNCHANGED <<fileVars, storeVars, jobVars>>
       /\ (response' # response /\ response'.op = "export_project")
          => UNCHANGED fileVars
       /\ \A j \in Jobs :
              pc'[j] = "scheduled"
              => (temp'[j] = NoFile /\ FilesOf(exports', j) = {})]_vars

\* A status query has reported a job in progress and its marker is still
\* there.
C20_Witness ==
    /\ response.op = "get_export_status"
    /\ response.status = "processing"
    /\ temp[response.arg] = response.progress
    /\ pc[response.arg] = "sleeping"

\* The filter ids of a listing response.
ListedIds(r) == {r.filters[i].id : i \in 1..Len(r.filters)}

\* C21: a filter effect whose value is an id of the listing emits exactly
\* one stage, and a filter effect whose value is not listed emits none: the
\* ids the compiler resolves to a template are the listed ids.
C21_ListingIsCatalog ==
    (response.op = "get_available_filters" /\ compiled = "yes")
    => \A i \in 0..(Len(effects) - 1) :
           LET at == StagesWriting(filter_complex, i) IN
           IF effects[i + 1].value \in ListedIds(response)
           THEN /\ Cardinality(at) = 1
                /\ \A k \in at : BodyOf(filter_complex[k]) # <<>>
           ELSE at = {}

\* A listed id and an unlisted id were compiled: one stage, for the listed.
C21_Witness ==
    /\ response.op = "get_available_filters"
    /\ Len(response.filters) = 8
    /\ compiled = "yes"
    /\ effects = <<Filter("neon"), Filter("saturate")>>
    /\ filter_complex = <<VideoInput \o <<effect_mapping["saturate"]>> \o OutputLabel(1)>>

\* The task of job j has ended: after the renderer returned code 0
\* (completed), or in a failure.
Terminal(j) == pc[j] \in {"done", "crashed"}

\* C22: with the tasks scheduled fairly and a renderer that exits, every
\* job export_project returned an id for reaches the end of its task and
\* stays there; the loop ends after the process has exited; once the task
\* has ended its marker is not written again; and the renderer of a job is
\* spawned at most once, from the task's start.
C22_JobsTerminate ==
    /\ \A j \in JobIds : (pc[j] # "none") ~> Terminal(j)
    /\ \A j \in JobIds : (proc[j] \in {"exit0", "exit1"}) ~> (pc[j] = "done")
    /\ [][\A j \in JobIds :
             /\ Terminal(j) => (pc'[j] = pc[j] /\ temp'[j] = temp[j]
                                /\ proc'[j] = proc[j])
             /\ (proc'[j] = "running" /\ proc[j] # "running")
                => (proc[j] = "none" /\ pc[j] = "scheduled")
             /\ proc[j] # "none" => proc'[j] # "none"]_vars

\* A job has run to completion: renderer exited with 0, file written,
\* marker removed.
C22_Witness ==
    /\ pc[1] = "done"
    /\ proc[1] = "exit0"
    /\ ExportFile(1) \in exports
    /\ temp[1] = NoFile

====
